---- MODULE Spec2Model ----
(***************************************************************************)
(* The detected-plane mesh synchronizer of XrExperience                    *)
(* (createPlaneMeshesFromXrPlane and initPolygon, src/src/index_9.ts).     *)
(*                                                                         *)
(* The plane detector delivers PlaneAdded / PlaneUpdated / PlaneRemoved    *)
(* notifications and the session manager delivers onXRSessionInit; each    *)
(* handler runs to completion (single-threaded JavaScript).  A handler     *)
(* that raises a TypeError stops at the statement that raised: what it     *)
(* did before that statement stays done.                                   *)
(*                                                                         *)
(* Engine behaviour the handlers rely on:                                  *)
(*  - Mesh.dispose(doNotRecurse, disposeMaterialAndTextures = false)       *)
(*    marks the mesh disposed, keeps its material reference, and disposes  *)
(*    the material only when the second argument is true;                  *)
(*  - PolygonMeshBuilder.build does not validate the number of points: it  *)
(*    returns a mesh for any contour of actual points;                     *)
(*  - _planes is a JavaScript array: writing past its end leaves holes,    *)
(*    forEach skips holes, pop() on a hole returns undefined.              *)
(*                                                                         *)
(* Four specifications:                                                    *)
(*  - Spec: the plane notifications of an application whose start-up has   *)
(*    gone through with every feature enabled;                             *)
(*  - SpecStartup: the constructor's promise chain (createXrExperience,    *)
(*    addFeaturesToSession, createScene) with any enableFeature call       *)
(*    throwing, followed by the plane notifications;                       *)
(*  - SpecDoor: the trigger handler, the anchor promises it requests, the  *)
(*    hit-test marker and the loading of the door model;                   *)
(*  - SpecDoorButton: the door button handler (openDoor / closeDoor) and   *)
(*    the frames of the door animation.                                    *)
(***************************************************************************)
EXTENDS Integers, Sequences, FiniteSets, TLC

\* ---------------------------------------------------------------- bounds
MaxId == 2
\* plane ids are 0..MaxId

MaxOutline == 3
\* a delivered outline has at most MaxOutline entries

MaxMesh == 2
\* meshes built during a run: no plane is added or updated once MaxMesh
\* meshes exist

MaxMat == 2
\* materials constructed during a run: no plane is added once MaxMat
\* materials exist

MaxStartupMesh == 1
\* the start-up specification follows the plane notifications until
\* MaxStartupMesh meshes exist

MaxRequests == 3
\* anchor creations requested during a run: no trigger press requests an
\* anchor once MaxRequests have been requested

MaxPoint == 2
\* picked points are 1..MaxPoint

MaxResults == 2
\* hit-test results are 1..MaxResults; a notification carries at most
\* MaxResults of them

FrameStep == 10
\* animation frames that pass between two steps of the door animation

\* ------------------------------------------------------------ JS values
\* undefined / null: an array hole, a missing outline point, the unassigned
\* closure variable `mat`.
Undefined == 0

Ids == 0..MaxId

\* Outlines the detector may deliver: the points 1..n in order for every
\* length n, and the full-length outline with its first or its last entry
\* missing.
Outlines ==
  { [ i \in 1..n |-> i ] : n \in 0..MaxOutline }
    \cup { [ i \in 1..MaxOutline |-> IF i = miss THEN Undefined ELSE i ]
            : miss \in {1, MaxOutline} }

VARIABLES
  planes,             \* this._planes: array of mesh references, with holes
  meshes,             \* every Mesh built so far, in order of construction
  nMat,               \* number of StandardMaterials constructed so far
  matDisposed,        \* materials that have been disposed
  mat,                \* the closure variable `mat` shared by the handlers
  polygonDefinition,  \* plane.polygonDefinition of the record the add/update handler was given, after it ran
  err,                \* what the last handler raised
  event,              \* history: the last notification (kind, id, and whether it repeats the one before)
  stage,              \* how far the constructor's promise chain has run
  xrPlanes,           \* this._xrPlanes is not null
  xrHitTest,          \* this._xrHitTest is not null
  xrAnchors,          \* this._xrAnchors is not null
  registered,         \* the groups of handlers createScene has registered
  doorLoaded,         \* the door model is loaded: _door, _doorFrame, _handle, _doorContainer are not null
  doorVisible,        \* isVisible of _door, _doorFrame and _handle
  boxVisible,         \* this._box.isVisible
  boxColor,           \* diffuseColor of the box material
  doorIsPlaced,       \* this._doorIsPlaced
  doorPos,            \* this._doorContainer.position, once a placement has set it
  pending,            \* the picked points of the anchor promises not yet settled
  requests,           \* history: the number of calls of addAnchorAtPosition
  doorErr,            \* what the last controller handler or promise callback raised
  anchors,            \* this._xrAnchors.anchors: for each tracked anchor, whether remove() was called on it
  markerVisible,      \* this._marker.isVisible
  hitTest,            \* this._hitTest
  results,            \* history: whether a hit-test notification has come, and the latest result list
  doorEvent,          \* history: the last controller event or callback (kind, and the pick of a trigger press)
  doorIsOpen,         \* this._doorIsOpen
  doorRot,            \* the door's rotation about the vertical axis, in degrees from its initial rotation
  anim,               \* the door animation in progress: its start rotation, angle and current frame
  interrupted         \* history: a door animation was begun while another was in progress

\* the plane synchronizer, the start-up and the door placement
planeVars == << planes, meshes, nMat, matDisposed, mat, polygonDefinition, err, event >>

startVars == << stage, xrPlanes, xrHitTest, xrAnchors, registered >>

doorVars == << doorLoaded, doorVisible, boxVisible, boxColor, doorIsPlaced,
               doorPos, pending, requests, doorErr, anchors, doorEvent >>

markerVars == << markerVisible, hitTest, results >>

buttonVars == << doorIsOpen, doorRot, anim, interrupted >>

vars == << planeVars, startVars, doorVars, markerVars, buttonVars >>

\* what the program itself holds (the history variable and the detector's
\* record left out)
prog == << planes, meshes, nMat, matDisposed, mat >>

\* ---------------------------------------------------- JavaScript arrays
\* arr[i] (0-based); a hole or an index past the end reads undefined.
ArrayGet(arr, i) == IF i + 1 <= Len(arr) THEN arr[i + 1] ELSE Undefined

\* arr[i] = v (0-based); writing past the end grows the array with holes.
ArraySet(arr, i, v) ==
  LET n == IF i + 1 > Len(arr) THEN i + 1 ELSE Len(arr)
  IN  [ k \in 1..n |-> IF k = i + 1 THEN v
                       ELSE IF k <= Len(arr) THEN arr[k] ELSE Undefined ]

\* while (arr.pop()); : pops until pop() returns a falsy value, i.e. until
\* the array is empty or the popped slot was a hole.
RECURSIVE PopWhile(_)
PopWhile(arr) ==
  IF Len(arr) = 0 THEN arr
  ELSE IF arr[Len(arr)] = Undefined THEN SubSeq(arr, 1, Len(arr) - 1)
  ELSE PopWhile(SubSeq(arr, 1, Len(arr) - 1))

\* arr.forEach(plane => plane.dispose()): every mesh the array refers to
\* is disposed; holes are skipped.
DisposeAll_Popped(arr, ms) ==
  [ k \in 1..Len(ms) |->
      IF \E i \in 1..Len(arr) :
           arr[i] = k /\ \A j \in i..Len(arr) : arr[j] # Undefined
      THEN [ ms[k] EXCEPT !.disposed = TRUE ] ELSE ms[k] ]

DisposeAll(arr, ms) ==
  [ k \in 1..Len(ms) |->
      IF \E i \in 1..Len(arr) : arr[i] = k
      THEN [ ms[k] EXCEPT !.disposed = TRUE ] ELSE ms[k] ]

\* ------------------------------------------------------------- engine
\* mesh.dispose(...) on the mesh table: the mesh is disposed and keeps its
\* material reference.
Dispose(ms, m) == [ ms EXCEPT ![m].disposed = TRUE ]

\* the disposed materials after mesh.dispose(_, disposeMaterialAndTextures).
DisposeMaterial(ms, m, disposeMaterialAndTextures, md) ==
  IF disposeMaterialAndTextures /\ ms[m].material # Undefined
  THEN md \cup { ms[m].material } ELSE md

\* polygonDefinition.some(p => !p)
HasMissing(o) == \E i \in 1..Len(o) : o[i] = Undefined

\* polygonDefinition.push(polygonDefinition[0])
Closed(o) == Append(o, IF Len(o) = 0 THEN Undefined ELSE o[1])

\* ---------------------------------------------------------- initPolygon
\* The result of initPolygon(plane, m) for registry ps and mesh table ms,
\* called from handler `by`: the closing point is pushed onto the record's
\* outline; mapping the outline to Vector2 raises a TypeError on a missing
\* point (p.x of undefined); otherwise a mesh named after the plane is
\* built, given the material when there is one, and stored at
\* _planes[plane.id].
InitPolygon_NoStore(ps, ms, id, o, m, by) ==
  LET closed == Closed(o)
  IN  IF HasMissing(closed)
      THEN [ threw |-> TRUE, planes |-> ps, meshes |-> ms, outline |-> closed ]
      ELSE [ threw  |-> FALSE,
             planes |-> ps,
             meshes |-> Append(ms, [ name |-> id, material |-> m,
                                     disposed |-> FALSE, by |-> by ]),
             outline |-> closed ]

InitPolygon(ps, ms, id, o, m, by) ==
  LET closed == Closed(o)
      new    == Len(ms) + 1
  IN  IF HasMissing(closed)
      THEN [ threw |-> TRUE, planes |-> ps, meshes |-> ms, outline |-> closed ]
      ELSE [ threw  |-> FALSE,
             planes |-> ArraySet(ps, id, new),
             meshes |-> Append(ms, [ name |-> id, material |-> m,
                                     disposed |-> FALSE, by |-> by ]),
             outline |-> closed ]

\* ---------------------------------------------------------------- Init
\* the length of a door animation in frames
Duration == 30

\* no door animation is in progress
NoAnimation == [ on |-> FALSE, from |-> 0, angle |-> 0, frame |-> 0 ]

\* the colours Color3.Random() may return
Colours == { "a", "b" }

\* the points a controller ray may pick
Points == 1..MaxPoint

\* The fields as the constructor sets them, before its promise chain runs.
Init ==
  /\ planes = << >>
  /\ meshes = << >>
  /\ nMat = 0
  /\ matDisposed = {}
  /\ mat = Undefined
  /\ polygonDefinition = << >>
  /\ err = "none"
  /\ event = [ kind |-> "none", id |-> 0, again |-> FALSE ]
  /\ stage = "constructed"
  /\ xrPlanes = FALSE
  /\ xrHitTest = FALSE
  /\ xrAnchors = FALSE
  /\ registered = {}
  /\ doorLoaded = FALSE
  /\ doorVisible = FALSE
  /\ boxVisible = FALSE
  /\ boxColor = "a"
  /\ doorIsPlaced = FALSE
  /\ doorPos = Undefined
  /\ pending = << >>
  /\ requests = 0
  /\ doorErr = "none"
  /\ anchors = << >>
  /\ markerVisible = FALSE
  /\ hitTest = Undefined
  /\ results = [ notified |-> FALSE, list |-> << >> ]
  /\ doorIsOpen = FALSE
  /\ doorRot = 0
  /\ anim = NoAnimation
  /\ interrupted = FALSE
  /\ doorEvent = [ kind |-> "none", pick |-> "none" ]

\* the history record of notification (kind, id)
Notified(kind, id) ==
  [ kind |-> kind, id |-> id, again |-> (event.kind = kind /\ event.id = id) ]

\* ------------------------------------------------------------- handlers
\* onPlaneAddedObservable: a new material is constructed and assigned to
\* the shared `mat`, then initPolygon(plane, mat).
PlaneAdded_SkipKnown(id, o) ==
  /\ nMat < MaxMat
  /\ Len(meshes) < MaxMesh
  /\ LET m == nMat + 1
         r == InitPolygon(planes, meshes, id, o, m, "added")
     IN  /\ nMat' = m
         /\ mat' = m
         /\ IF ArrayGet(planes, id) # Undefined
            THEN /\ UNCHANGED << planes, meshes >>
                 /\ polygonDefinition' = o
                 /\ err' = "none"
            ELSE /\ planes' = r.planes
                 /\ meshes' = r.meshes
                 /\ polygonDefinition' = r.outline
                 /\ err' = IF r.threw THEN "TypeError" ELSE "none"
  /\ matDisposed' = matDisposed
  /\ event' = Notified("added", id)

PlaneAdded_LazyMaterial(id, o) ==
  /\ nMat < MaxMat
  /\ Len(meshes) < MaxMesh
  /\ LET m == IF mat # Undefined THEN mat ELSE nMat + 1
         r == InitPolygon(planes, meshes, id, o, m, "added")
     IN  /\ nMat' = IF mat # Undefined THEN nMat ELSE m
         /\ mat' = m
         /\ planes' = r.planes
         /\ meshes' = r.meshes
         /\ polygonDefinition' = r.outline
         /\ err' = IF r.threw THEN "TypeError" ELSE "none"
  /\ matDisposed' = matDisposed
  /\ event' = Notified("added", id)

PlaneAdded(id, o) ==
  /\ nMat < MaxMat
  /\ Len(meshes) < MaxMesh
  /\ LET m == nMat + 1
         r == InitPolygon(planes, meshes, id, o, m, "added")
     IN  /\ nMat' = m
         /\ mat' = m
         /\ planes' = r.planes
         /\ meshes' = r.meshes
         /\ polygonDefinition' = r.outline
         /\ err' = IF r.threw THEN "TypeError" ELSE "none"
  /\ matDisposed' = matDisposed
  /\ event' = Notified("added", id)

\* if (this._planes[plane.id].material) mat = this._planes[plane.id].material:
\* the material the update handler goes on with, for a populated slot.
RetainedMaterial_Shared(ms, slot, m) == m

RetainedMaterial(ms, slot, m) ==
  IF ms[slot].material # Undefined THEN ms[slot].material ELSE m

\* onPlaneUpdatedObservable: reads this._planes[plane.id].material (a
\* TypeError when the slot is undefined); when the slot's mesh has a
\* material, `mat` takes it and the mesh is disposed with
\* dispose(false, false); an outline with a missing point returns here;
\* otherwise initPolygon(plane, mat).
PlaneUpdated(id, o) ==
  /\ Len(meshes) < MaxMesh
  /\ LET slot == ArrayGet(planes, id)
     IN  IF slot = Undefined
         THEN /\ err' = "TypeError"
              /\ polygonDefinition' = o
              /\ UNCHANGED << planes, meshes, mat, matDisposed >>
         ELSE LET has == meshes[slot].material # Undefined
                  m1  == RetainedMaterial(meshes, slot, mat)
                  ms1 == IF has THEN Dispose(meshes, slot) ELSE meshes
                  md1 == IF has THEN DisposeMaterial(meshes, slot, FALSE, matDisposed)
                         ELSE matDisposed
              IN  IF HasMissing(o)
                  THEN /\ mat' = m1
                       /\ meshes' = ms1
                       /\ matDisposed' = md1
                       /\ planes' = planes
                       /\ polygonDefinition' = o
                       /\ err' = "none"
                  ELSE LET r == InitPolygon(planes, ms1, id, o, m1, "updated")
                       IN  /\ mat' = m1
                           /\ matDisposed' = md1
                           /\ planes' = r.planes
                           /\ meshes' = r.meshes
                           /\ polygonDefinition' = r.outline
                           /\ err' = IF r.threw THEN "TypeError" ELSE "none"
  /\ nMat' = nMat
  /\ event' = Notified("updated", id)

\* onPlaneRemovedObservable: when the slot holds a mesh it is disposed
\* (dispose() with no arguments, so the material is kept); the slot itself
\* is not touched.
PlaneRemoved_NoGuard(id) ==
  /\ LET slot == ArrayGet(planes, id)
     IN  IF slot # Undefined
         THEN /\ meshes' = Dispose(meshes, slot)
              /\ matDisposed' = DisposeMaterial(meshes, slot, FALSE, matDisposed)
              /\ err' = "none"
         ELSE /\ UNCHANGED << meshes, matDisposed >>
              /\ err' = "TypeError"
  /\ planes' = planes
  /\ polygonDefinition' = << >>
  /\ UNCHANGED << nMat, mat >>
  /\ event' = Notified("removed", id)

PlaneRemoved(id) ==
  /\ LET slot == ArrayGet(planes, id)
     IN  IF slot # Undefined
         THEN /\ meshes' = Dispose(meshes, slot)
              /\ matDisposed' = DisposeMaterial(meshes, slot, FALSE, matDisposed)
         ELSE UNCHANGED << meshes, matDisposed >>
  /\ planes' = planes
  /\ polygonDefinition' = << >>
  /\ err' = "none"
  /\ UNCHANGED << nMat, mat >>
  /\ event' = Notified("removed", id)

\* onXRSessionInit: every mesh in the array is disposed (forEach skips
\* holes), then while (this._planes.pop());
XRSessionInit ==
  /\ meshes' = DisposeAll(planes, meshes)
  /\ planes' = PopWhile(planes)
  /\ polygonDefinition' = << >>
  /\ err' = "none"
  /\ UNCHANGED << nMat, mat, matDisposed >>
  /\ event' = Notified("init", 0)

\* The detector's observables notify the handlers createScene registered;
\* nothing else of the application changes.
onPlaneAddedObservable(id, o) ==
  /\ "planes" \in registered
  /\ PlaneAdded(id, o)
  /\ UNCHANGED << startVars, doorVars, markerVars, buttonVars >>

onPlaneUpdatedObservable(id, o) ==
  /\ "planes" \in registered
  /\ PlaneUpdated(id, o)
  /\ UNCHANGED << startVars, doorVars, markerVars, buttonVars >>

onPlaneRemovedObservable(id) ==
  /\ "planes" \in registered
  /\ PlaneRemoved(id)
  /\ UNCHANGED << startVars, doorVars, markerVars, buttonVars >>

onXRSessionInit ==
  /\ "planes" \in registered
  /\ XRSessionInit
  /\ UNCHANGED << startVars, doorVars, markerVars, buttonVars >>

\* -------------------------------------------------------------- start-up
\* createXrExperience rejects (CreateAsync fails or there is no
\* baseExperience): the constructor's catch logs it and nothing else runs.
CreateXrExperienceFailed ==
  /\ stage = "constructed"
  /\ stage' = "failed"
  /\ UNCHANGED << xrPlanes, xrHitTest, xrAnchors, registered >>
  /\ UNCHANGED << planeVars, doorVars, markerVars, buttonVars >>

\* addFeaturesToSession: plane detection, hit test and anchors are enabled
\* in this order inside one try block; the enableFeature call number
\* failAt throws (none when failAt is past the last), the catch logs it and
\* the fields not yet assigned stay null.
AddFeaturesToSession_EachGuarded(failAt) ==
  /\ stage = "constructed"
  /\ stage' = "featuresAdded"
  /\ xrPlanes' = (failAt # 1)
  /\ xrHitTest' = (failAt # 2)
  /\ xrAnchors' = (failAt # 3)
  /\ registered' = registered
  /\ UNCHANGED << planeVars, doorVars, markerVars, buttonVars >>

AddFeaturesToSession(failAt) ==
  /\ stage = "constructed"
  /\ stage' = "featuresAdded"
  /\ xrPlanes' = (failAt > 1)
  /\ xrHitTest' = (failAt > 2)
  /\ xrAnchors' = (failAt > 3)
  /\ registered' = registered
  /\ UNCHANGED << planeVars, doorVars, markerVars, buttonVars >>

\* createPlaneMeshesFromXrPlane: if (this._xrPlanes === null) return;
\* otherwise the added, updated, removed and session-init handlers are
\* registered.
PlaneHandlers_NoGuard(xp) == { "planes" }

PlaneHandlers(xp) == IF xp THEN { "planes" } ELSE {}

\* performHitTest: if (this._xrHitTest === null) return; otherwise the
\* hit-test result handler is registered.
HitTestHandlers(xh) == IF xh THEN { "hitTest" } ELSE {}

\* if (this._xrAnchors && this._xrAnchors.isCompatible()): observeAnchors
\* and handleControllerSelection register their handlers.
AnchorHandlers(xa, isCompatible) ==
  IF xa /\ isCompatible THEN { "anchors", "controller" } ELSE {}

\* createScene, run in the same callback right after addFeaturesToSession.
CreateScene(isCompatible) ==
  /\ stage = "featuresAdded"
  /\ stage' = "sceneCreated"
  /\ registered' = PlaneHandlers(xrPlanes) \cup HitTestHandlers(xrHitTest)
                     \cup AnchorHandlers(xrAnchors, isCompatible)
  /\ UNCHANGED << xrPlanes, xrHitTest, xrAnchors >>
  /\ UNCHANGED << planeVars, doorVars, markerVars, buttonVars >>

\* The application once start-up has gone through with every feature
\* enabled and compatible: all handlers are registered, nothing has been
\* notified yet.
Started ==
  /\ planes = << >>
  /\ meshes = << >>
  /\ nMat = 0
  /\ matDisposed = {}
  /\ mat = Undefined
  /\ polygonDefinition = << >>
  /\ err = "none"
  /\ event = [ kind |-> "none", id |-> 0, again |-> FALSE ]
  /\ stage = "sceneCreated"
  /\ xrPlanes = TRUE
  /\ xrHitTest = TRUE
  /\ xrAnchors = TRUE
  /\ registered = { "planes", "hitTest", "anchors", "controller" }
  /\ doorLoaded = FALSE
  /\ doorVisible = FALSE
  /\ boxVisible = FALSE
  /\ boxColor = "a"
  /\ doorIsPlaced = FALSE
  /\ doorPos = Undefined
  /\ pending = << >>
  /\ requests = 0
  /\ doorErr = "none"
  /\ anchors = << >>
  /\ markerVisible = FALSE
  /\ hitTest = Undefined
  /\ results = [ notified |-> FALSE, list |-> << >> ]
  /\ doorIsOpen = FALSE
  /\ doorRot = 0
  /\ anim = NoAnimation
  /\ interrupted = FALSE
  /\ doorEvent = [ kind |-> "none", pick |-> "none" ]

\* ------------------------------------------------------- door placement
\* addDoor's SceneLoader.Append callback: the door meshes are looked up
\* and made invisible.
DoorModelLoaded ==
  /\ stage = "sceneCreated"
  /\ ~doorLoaded
  /\ doorLoaded' = TRUE
  /\ doorVisible' = FALSE
  /\ doorEvent' = [ kind |-> "loaded", pick |-> "none" ]
  /\ UNCHANGED << boxVisible, boxColor, doorIsPlaced, doorPos, pending,
                  requests, doorErr, anchors >>
  /\ UNCHANGED << planeVars, startVars, markerVars, buttonVars >>

\* What the controller ray picks: a mesh named after a vertical plane, a
\* horizontal plane above 0.5 or at most 0.5 (the floor), a door mesh, the
\* marker, the box, another mesh, or nothing.
Picks == { "vertical", "horizontalHigh", "horizontalLow", "door", "handle",
           "doorFrame", "marker", "box", "other", "none" }

\* name.includes('vertical') || (name.includes('horizontal') && position.y > 0.5)
PlaneOtherThanFloor(pick) == pick \in { "vertical", "horizontalHigh" }

\* pickedMesh === _door || _handle || _doorFrame || _marker
PermittedMesh_NoMarker(pick) == pick \in { "door", "handle", "doorFrame" }

PermittedMesh(pick) == pick \in { "door", "handle", "doorFrame", "marker" }

\* s without its i-th element
RemoveAt(s, i) == SubSeq(s, 1, i - 1) \o SubSeq(s, i + 1, Len(s))

\* The trigger handler for a press with value above 0.8 whose ray picks
\* `pick` at `point`: nothing for no hit, a plane other than the floor or a
\* permitted mesh; a picked box gets a random colour; then, unless
\* _doorIsPlaced, addAnchorAtPosition requests an anchor at the point.
TriggerPress_NoPlacedGuard(pick, point) ==
  /\ "controller" \in registered
  /\ pick \in { "door", "handle", "doorFrame" } => ( doorLoaded /\ doorVisible )
  /\ pick = "box" => boxVisible
  /\ pick = "marker" => markerVisible
  /\ IF pick = "none" \/ PlaneOtherThanFloor(pick) \/ PermittedMesh(pick)
     THEN UNCHANGED << boxColor, pending, requests >>
     ELSE /\ IF pick = "box" THEN boxColor' \in Colours
                             ELSE boxColor' = boxColor
          /\ requests < MaxRequests
          /\ requests' = requests + 1
          /\ pending' = Append(pending, point)
  /\ doorErr' = "none"
  /\ doorEvent' = [ kind |-> "trigger", pick |-> pick ]
  /\ UNCHANGED << doorLoaded, doorVisible, boxVisible, doorIsPlaced, doorPos,
                  anchors >>
  /\ UNCHANGED << planeVars, startVars, markerVars, buttonVars >>

TriggerPress(pick, point) ==
  /\ "controller" \in registered
  /\ pick \in { "door", "handle", "doorFrame" } => ( doorLoaded /\ doorVisible )
  /\ pick = "box" => boxVisible
  /\ pick = "marker" => markerVisible
  /\ IF pick = "none" \/ PlaneOtherThanFloor(pick) \/ PermittedMesh(pick)
     THEN UNCHANGED << boxColor, pending, requests >>
     ELSE /\ IF pick = "box" THEN boxColor' \in Colours
                             ELSE boxColor' = boxColor
          /\ IF ~doorIsPlaced
             THEN /\ requests < MaxRequests
                  /\ requests' = requests + 1
                  /\ pending' = Append(pending, point)
             ELSE UNCHANGED << pending, requests >>
  /\ doorErr' = "none"
  /\ doorEvent' = [ kind |-> "trigger", pick |-> pick ]
  /\ UNCHANGED << doorLoaded, doorVisible, boxVisible, doorIsPlaced, doorPos,
                  anchors >>
  /\ UNCHANGED << planeVars, startVars, markerVars, buttonVars >>

\* observeAnchors' handler for the anchor at index added of the tracked
\* anchors as: remove() is called on every other anchor.
ObserveAnchors_KeepOthers(as, added) == as

ObserveAnchors(as, added) ==
  [ k \in 1..Len(as) |-> IF k # added THEN TRUE ELSE as[k] ]

\* The anchor system tracks a new anchor and notifies
\* onAnchorAddedObservable before it resolves the anchor's promise.
AnchorAdded(as) ==
  LET tracked == Append(as, FALSE)
  IN  IF "anchors" \in registered
      THEN ObserveAnchors(tracked, Len(tracked)) ELSE tracked

\* The anchor of the i-th pending request is tracked, then the
\* then-callback of addAnchorAtPositionAndRotationAsync runs: the box is
\* shown; this._door!.isVisible raises a TypeError while the door model is
\* not loaded; otherwise the door meshes are shown, the container is moved
\* to the picked point and _doorIsPlaced is set.
AnchorResolved_FlagFirst(i) ==
  /\ i <= Len(pending)
  /\ pending' = RemoveAt(pending, i)
  /\ boxVisible' = TRUE
  /\ doorIsPlaced' = TRUE
  /\ IF doorLoaded
     THEN /\ doorVisible' = TRUE
          /\ doorPos' = pending[i]
          /\ doorErr' = "none"
     ELSE /\ doorErr' = "TypeError"
          /\ UNCHANGED << doorVisible, doorPos >>
  /\ anchors' = AnchorAdded(anchors)
  /\ doorEvent' = [ kind |-> "resolved", pick |-> "none" ]
  /\ UNCHANGED << doorLoaded, boxColor, requests >>
  /\ UNCHANGED << planeVars, startVars, markerVars, buttonVars >>

AnchorResolved(i) ==
  /\ i <= Len(pending)
  /\ pending' = RemoveAt(pending, i)
  /\ boxVisible' = TRUE
  /\ IF doorLoaded
     THEN /\ doorVisible' = TRUE
          /\ doorPos' = pending[i]
          /\ doorIsPlaced' = TRUE
          /\ doorErr' = "none"
     ELSE /\ doorErr' = "TypeError"
          /\ UNCHANGED << doorVisible, doorPos, doorIsPlaced >>
  /\ anchors' = AnchorAdded(anchors)
  /\ doorEvent' = [ kind |-> "resolved", pick |-> "none" ]
  /\ UNCHANGED << doorLoaded, boxColor, requests >>
  /\ UNCHANGED << planeVars, startVars, markerVars, buttonVars >>

\* The promise of the i-th pending request rejects: there is no rejection
\* handler, nothing changes.
AnchorRejected(i) ==
  /\ i <= Len(pending)
  /\ pending' = RemoveAt(pending, i)
  /\ doorEvent' = [ kind |-> "rejected", pick |-> "none" ]
  /\ UNCHANGED << doorLoaded, doorVisible, boxVisible, boxColor, doorIsPlaced,
                  doorPos, requests, doorErr, anchors >>
  /\ UNCHANGED << planeVars, startVars, markerVars, buttonVars >>
\* ------------------------------------------------------ hit-test marker
\* a hit-test notification carries a list of different results
Results ==
  { rs \in UNION { [ 1..n -> 1..MaxResults ] : n \in 0..MaxResults } :
      \A i, j \in 1..Len(rs) : i # j => rs[i] # rs[j] }

\* results[0]
FirstResult_Last(rs) == rs[Len(rs)]

FirstResult(rs) == rs[1]

\* The hit-test result handler performHitTest registered: with results
\* the marker is shown and _hitTest is the first of them; with none the
\* marker is hidden and _hitTest is undefined.
onHitTestResultObservable(rs) ==
  /\ "hitTest" \in registered
  /\ IF Len(rs) > 0
     THEN /\ markerVisible' = TRUE
          /\ hitTest' = FirstResult(rs)
     ELSE /\ markerVisible' = FALSE
          /\ hitTest' = Undefined
  /\ results' = [ notified |-> TRUE, list |-> rs ]
  /\ doorEvent' = [ kind |-> "hitTest", pick |-> "none" ]
  /\ UNCHANGED << doorLoaded, doorVisible, boxVisible, boxColor, doorIsPlaced,
                  doorPos, pending, requests, doorErr, anchors >>
  /\ UNCHANGED << planeVars, startVars, buttonVars >>

\* ------------------------------------------------------------ door button
\* const angle = this._doorIsOpen ? -Math.PI / 1.5 : Math.PI / 1.5, in degrees
DoorAngle_AlwaysOpen(open) == 120

DoorAngle(open) == IF open THEN -120 ELSE 120

\* Quaternion.RotationAxis(axis, angle).multiply(rotation): rotations about
\* the one vertical axis add up
Rotate(rotation, angle) == (rotation + angle) % 360

\* animateDoor(duration): an animation from the door's current rotation to
\* that rotation turned by the angle; beginAnimation stops the animation
\* in progress and starts it.
AnimateDoor(rotation, open) ==
  [ on |-> TRUE, from |-> rotation, angle |-> DoorAngle(open), frame |-> 0 ]

\* the rotation the animation a ends at
EndRotation(a) == Rotate(a.from, a.angle)

\* The door button's state-change handler: when pressed, closeDoor or
\* openDoor by _doorIsOpen; each does nothing while _door is null, and
\* otherwise animates the door and then sets _doorIsOpen.
ButtonStateChanged_NoNullGuard(pressed) ==
  /\ "controller" \in registered
  /\ IF pressed /\ doorLoaded
     THEN /\ anim' = AnimateDoor(doorRot, doorIsOpen)
          /\ doorIsOpen' = ~doorIsOpen
          /\ interrupted' = ( interrupted \/ anim.on )
          /\ doorErr' = "none"
     ELSE /\ UNCHANGED << anim, doorIsOpen, interrupted >>
          /\ doorErr' = IF pressed THEN "TypeError" ELSE "none"
  /\ doorRot' = doorRot
  /\ doorEvent' = [ kind |-> IF pressed THEN "button" ELSE "buttonUp",
                    pick |-> "none" ]
  /\ UNCHANGED << doorLoaded, doorVisible, boxVisible, boxColor, doorIsPlaced,
                  doorPos, pending, requests, anchors >>
  /\ UNCHANGED << planeVars, startVars, markerVars >>

ButtonStateChanged(pressed) ==
  /\ "controller" \in registered
  /\ IF pressed /\ doorLoaded
     THEN /\ anim' = AnimateDoor(doorRot, doorIsOpen)
          /\ doorIsOpen' = ~doorIsOpen
          /\ interrupted' = ( interrupted \/ anim.on )
     ELSE UNCHANGED << anim, doorIsOpen, interrupted >>
  /\ doorRot' = doorRot
  /\ doorErr' = "none"
  /\ doorEvent' = [ kind |-> IF pressed THEN "button" ELSE "buttonUp",
                    pick |-> "none" ]
  /\ UNCHANGED << doorLoaded, doorVisible, boxVisible, boxColor, doorIsPlaced,
                  doorPos, pending, requests, anchors >>
  /\ UNCHANGED << planeVars, startVars, markerVars >>

\* The scene renders FrameStep more frames of the door animation: the
\* door's rotation is interpolated between the key frames 0 and Duration;
\* the animation ends at frame Duration.
AnimationFrames ==
  /\ anim.on
  /\ LET f == IF anim.frame + FrameStep > Duration THEN Duration
              ELSE anim.frame + FrameStep
     IN  /\ doorRot' = Rotate(anim.from, (anim.angle * f) \div Duration)
         /\ anim' = IF f = Duration THEN NoAnimation
                    ELSE [ anim EXCEPT !.frame = f ]
  /\ doorEvent' = [ kind |-> "frames", pick |-> "none" ]
  /\ UNCHANGED << doorIsOpen, interrupted >>
  /\ UNCHANGED << doorLoaded, doorVisible, boxVisible, boxColor, doorIsPlaced,
                  doorPos, pending, requests, doorErr, anchors >>
  /\ UNCHANGED << planeVars, startVars, markerVars >>

\* ------------------------------------------------------- specifications
\* the plane synchronizer of a started application
Next ==
  \/ \E id \in Ids, o \in Outlines : onPlaneAddedObservable(id, o)
  \/ \E id \in Ids, o \in Outlines : onPlaneUpdatedObservable(id, o)
  \/ \E id \in Ids : onPlaneRemovedObservable(id)
  \/ onXRSessionInit

Spec == Started /\ [][Next]_vars

\* start-up from the constructed object, followed by the plane
\* notifications until MaxStartupMesh meshes exist
Early == Len(meshes) < MaxStartupMesh

NextStartup ==
  \/ CreateXrExperienceFailed
  \/ \E failAt \in 1..4 : AddFeaturesToSession(failAt)
  \/ \E isCompatible \in BOOLEAN : CreateScene(isCompatible)
  \/ \E id \in Ids, o \in Outlines : Early /\ onPlaneAddedObservable(id, o)
  \/ \E id \in Ids, o \in Outlines : Early /\ onPlaneUpdatedObservable(id, o)
  \/ \E id \in Ids : Early /\ onPlaneRemovedObservable(id)
  \/ Early /\ onXRSessionInit

SpecStartup == Init /\ [][NextStartup]_vars

\* the door placement of a started application
NextDoor ==
  \/ DoorModelLoaded
  \/ \E pick \in Picks, point \in Points : TriggerPress(pick, point)
  \/ \E i \in 1..MaxRequests : AnchorResolved(i)
  \/ \E i \in 1..MaxRequests : AnchorRejected(i)
  \/ \E rs \in Results : onHitTestResultObservable(rs)

SpecDoor == Started /\ [][NextDoor]_vars

\* the door button of a started application
NextDoorButton ==
  \/ DoorModelLoaded
  \/ \E pressed \in BOOLEAN : ButtonStateChanged(pressed)
  \/ AnimationFrames

SpecDoorButton == Started /\ [][NextDoorButton]_vars

\* ============================================================== claims
\* the registry slot of a plane id, and what the claims say about it
Slot(id) == ArrayGet(planes, id)

Live(m) == m # Undefined /\ ~meshes[m].disposed

\* the number of slots of registry ps that refer to a mesh built for plane id
RegistryCount(ps, ms, id) ==
  Cardinality({ i \in 1..Len(ps) : ps[i] # Undefined /\ ms[ps[i]].name = id })

\* registry ps holds exactly one mesh for plane id, in the slot of id
HoldsOneMesh(ps, ms, id) ==
  ArrayGet(ps, id) # Undefined /\ RegistryCount(ps, ms, id) = 1

\* the non-disposed meshes built for plane id
LiveMeshes(id) ==
  { k \in 1..Len(meshes) : meshes[k].name = id /\ ~meshes[k].disposed }

\* the mesh built by the most recent successful PlaneAdded(id) among the
\* first k meshes
AddedBefore(id, k) ==
  { j \in 1..k : meshes[j].name = id /\ meshes[j].by = "added" }

LastAdded(id, k) ==
  CHOOSE j \in AddedBefore(id, k) : \A i \in AddedBefore(id, k) : i <= j

\* C1 (stale-update no-op): when PlaneUpdated delivers an outline with a
\* missing point for an id whose slot holds a non-disposed mesh X, the
\* slot still holds X afterwards and X is unchanged (not disposed, same
\* material).
C1_StaleUpdateKeepsMesh ==
  [][ \A o \in Outlines :
        LET id == event'.id
            X  == ArrayGet(planes, id)
        IN  ( /\ event'.kind = "updated"
              /\ HasMissing(o)
              /\ Live(X)
              /\ PlaneUpdated(id, o) )
            => ( /\ ArrayGet(planes', id) = X
                 /\ meshes'[X] = meshes[X] ) ]_vars

\* C2 (session reset empties the registry): after the session-init
\* handler has run, the registry holds no entry for any plane id.
C2_ResetEmptiesRegistry ==
  event.kind = "init" => \A id \in Ids : Slot(id) = Undefined

\* C3 (removal unmaps): after PlaneRemoved(id) has been handled, the
\* registry maps id to no mesh.
C3_RemovedIsUnmapped ==
  event.kind = "removed" => Slot(event.id) = Undefined

\* C4 (update of an untracked id is a no-op): PlaneUpdated for an id with
\* no registry entry raises no error and leaves the registry, the meshes
\* and the materials unchanged.
C4_UpdateUntrackedNoOp ==
  [][ ( event'.kind = "updated" /\ ArrayGet(planes, event'.id) = Undefined )
      => ( err' = "none" /\ UNCHANGED prog ) ]_vars

\* C5 (at most one live mesh per id): after every event, at most one
\* non-disposed mesh built for any given plane id exists.
C5_AtMostOneLiveMesh ==
  \A id \in Ids : Cardinality(LiveMeshes(id)) <= 1

\* an outline the builder can take: not empty, no missing point
WellFormed(o) == Len(o) > 0 /\ ~HasMissing(o)

\* C6 as stated (exactly one mesh after add/update sequences): every
\* PlaneAdded(id) leaves the registry holding exactly one mesh for id, and
\* every later PlaneAdded(id) or PlaneUpdated(id) keeps it so; hence after
\* any sequence of them that begins with PlaneAdded the registry holds
\* exactly one mesh for id.
C6_Original_OneMeshAfterAdd ==
  [][ /\ event'.kind = "added"
         => HoldsOneMesh(planes', meshes', event'.id)
      /\ ( event'.kind = "updated" /\ HoldsOneMesh(planes, meshes, event'.id) )
         => HoldsOneMesh(planes', meshes', event'.id) ]_vars

\* C6 as amended: every PlaneAdded(id) whose outline is non-empty and has
\* no missing point leaves the registry holding exactly one mesh for id,
\* and every later PlaneAdded(id) or PlaneUpdated(id), whatever its
\* outline, keeps it so.
C6_OneMeshAfterWellFormedAdd ==
  [][ /\ \A o \in Outlines :
           ( event'.kind = "added" /\ WellFormed(o) /\ PlaneAdded(event'.id, o) )
           => HoldsOneMesh(planes', meshes', event'.id)
      /\ ( event'.kind \in {"added", "updated"}
           /\ HoldsOneMesh(planes, meshes, event'.id) )
         => HoldsOneMesh(planes', meshes', event'.id) ]_vars

\* an update has rebuilt the mesh of an id that was added before, and the
\* registry holds that one mesh for it
C6_Witness ==
  /\ event.kind = "updated"
  /\ HoldsOneMesh(planes, meshes, event.id)
  /\ Live(Slot(event.id))
  /\ meshes[Slot(event.id)].by = "updated"

\* C7 (material stability): the mesh registered for an id carries the
\* material M that the most recent successful PlaneAdded(id) installed,
\* however many PlaneUpdated(id) events (well-formed or stale) and events
\* for other ids have been handled since.
C7_MaterialStability ==
  \A id \in Ids :
    Slot(id) # Undefined
    => /\ AddedBefore(id, Slot(id)) # {}
       /\ meshes[Slot(id)].material
            = meshes[LastAdded(id, Slot(id))].material

\* an update has rebuilt the mesh of an id after a later PlaneAdded issued
\* another material into the shared `mat`
C7_Witness ==
  /\ event.kind = "updated"
  /\ Live(Slot(event.id))
  /\ meshes[Slot(event.id)].by = "updated"
  /\ meshes[Slot(event.id)].material < nMat

\* C8 (no per-event fault is fatal): no handler raises an exception.
C8_NoHandlerRaises == err = "none"

\* C9 (removal idempotence): PlaneRemoved raises no error; for an id with
\* no registry entry it leaves the registry, meshes and materials
\* unchanged; and a PlaneRemoved(id) that directly follows a
\* PlaneRemoved(id) leaves them as the first one did.
C9_RemovalIdempotent ==
  [][ event'.kind = "removed"
      => /\ err' = "none"
         /\ ArrayGet(planes, event'.id) = Undefined => UNCHANGED prog
         /\ event'.again => UNCHANGED prog ]_vars

\* PlaneRemoved(id) has been handled twice in a row for an id that has a
\* registry entry
C9_Witness ==
  /\ event.kind = "removed"
  /\ event.again
  /\ Slot(event.id) # Undefined

\* C10 (degenerate update is dropped): when PlaneUpdated delivers an
\* outline of fewer than 3 points, none missing, for an id whose slot
\* holds a non-disposed mesh X, no mesh is built and X stays installed and
\* not disposed.
C10_DegenerateUpdateDropped ==
  [][ \A o \in Outlines :
        LET id == event'.id
            X  == ArrayGet(planes, id)
        IN  ( /\ event'.kind = "updated"
              /\ ~HasMissing(o)
              /\ Len(o) < 3
              /\ Live(X)
              /\ PlaneUpdated(id, o) )
            => ( /\ Len(meshes') = Len(meshes)
                 /\ ArrayGet(planes', id) = X
                 /\ ~meshes'[X].disposed ) ]_vars

\* C11 (degenerate input rejection): PlaneAdded with an outline of only 2
\* points builds and installs no mesh, so an id with no registry entry
\* still has none afterwards.
C11_TwoPointAddRejected ==
  [][ \A o \in Outlines :
        ( /\ event'.kind = "added"
          /\ Len(o) = 2
          /\ ~HasMissing(o)
          /\ PlaneAdded(event'.id, o) )
        => ( /\ Len(meshes') = Len(meshes)
             /\ planes' = planes ) ]_vars

\* no two slots of registry ps refer to meshes with the same material
NoSharedMaterial(ps, ms) ==
  \A i, j \in 1..Len(ps) :
    ( i # j /\ ps[i] # Undefined /\ ps[j] # Undefined )
    => ms[ps[i]].material # ms[ps[j]].material

\* C12 (no cross-id leakage through the shared `mat`): the material
\* PlaneUpdated puts on the mesh it builds for an id is the material of the
\* mesh that id had before, a material carried only by meshes of that id;
\* and no two distinct ids ever have registered meshes with one material.
C12_NoCrossIdLeakage ==
  [][ /\ ( event'.kind = "updated" /\ Len(meshes') > Len(meshes) )
         => LET id   == event'.id
                own  == meshes[ArrayGet(planes, id)].material
            IN  /\ meshes'[Len(meshes')].material = own
                /\ \A k \in 1..Len(meshes) :
                     meshes[k].material = own => meshes[k].name = id
      /\ NoSharedMaterial(planes', meshes') ]_vars

\* an update has rebuilt a mesh after a later add had overwritten `mat`
C12_Witness ==
  /\ event.kind = "updated"
  /\ Len(meshes) > 0
  /\ meshes[Len(meshes)].by = "updated"
  /\ Live(Slot(event.id))
  /\ meshes[Slot(event.id)].material # nMat

\* the mesh installed for plane id by a step is new, live, and carries a
\* material constructed in that step that no earlier mesh carries
FreshlyInstalled(ps1, ms1, n0, n1, ms0, id) ==
  LET new == ArrayGet(ps1, id)
  IN  /\ new = Len(ms0) + 1
      /\ Len(ms1) = new
      /\ ~ms1[new].disposed
      /\ n1 = n0 + 1
      /\ ms1[new].material = n1
      /\ \A k \in 1..Len(ms0) : ms0[k].material # ms1[new].material

\* C13 as stated (fresh material on every add): every PlaneAdded installs
\* a mesh for its id whose material was created by that event and is
\* carried by no mesh installed earlier.
C13_Original_FreshMaterialOnAdd ==
  [][ event'.kind = "added"
      => FreshlyInstalled(planes', meshes', nMat, nMat', meshes, event'.id) ]_vars

\* C13 amended: every PlaneAdded whose outline is non-empty and has no
\* missing point succeeds and installs a mesh for its id whose material
\* was created by that event and is carried by no mesh installed earlier,
\* after a session reset and for a previously used id too.
C13_FreshMaterialOnWellFormedAdd ==
  [][ \A o \in Outlines :
        ( /\ event'.kind = "added"
          /\ WellFormed(o)
          /\ PlaneAdded(event'.id, o) )
        => ( /\ err' = "none"
             /\ FreshlyInstalled(planes', meshes', nMat, nMat', meshes,
                                 event'.id) ) ]_vars

\* a plane was added for an id used before whose earlier mesh is disposed
\* and carried another material
C13_Witness ==
  /\ event.kind = "added"
  /\ err = "none"
  /\ Live(Slot(event.id))
  /\ meshes[Slot(event.id)].material = nMat
  /\ \E k \in 1..Len(meshes) :
       /\ k < Slot(event.id)
       /\ meshes[k].name = event.id
       /\ meshes[k].disposed
       /\ meshes[k].material # nMat

\* C14 (full disposal on remove): PlaneRemoved(id) for an id whose slot
\* holds a live mesh disposes the mesh and its material, and that material
\* is on no mesh built later.
C14_RemoveDisposesMaterial ==
  [][ LET X == ArrayGet(planes, event'.id)
      IN  /\ ( event'.kind = "removed" /\ Live(X) )
             => ( /\ meshes'[X].disposed
                  /\ meshes[X].material \in matDisposed' )
          /\ \A k \in 1..Len(meshes') :
               k > Len(meshes) => meshes'[k].material \notin matDisposed' ]_vars

\* C15 (session reset disposal): every mesh the registry refers to when
\* the session-init handler starts is disposed when it returns, whatever
\* the set of tracked ids.
C15_ResetDisposesAll ==
  [][ event'.kind = "init"
      => \A i \in 1..Len(planes) :
           planes[i] # Undefined => meshes'[planes[i]].disposed ]_vars

\* a session reset ran over a registry with a hole below a tracked id: a
\* slot is left behind and both meshes are disposed
C15_Witness ==
  /\ event.kind = "init"
  /\ Len(planes) > 0
  /\ Len(meshes) = 2
  /\ meshes[1].name # meshes[2].name
  /\ \A k \in 1..Len(meshes) : meshes[k].disposed

\* after the step, registry ps1 / mesh table ms1 hold for plane id a live
\* mesh that is not mesh X
TrackedAgain(ps1, ms1, id, X) ==
  LET new == ArrayGet(ps1, id)
  IN  /\ new # Undefined
      /\ new # X
      /\ ~ms1[new].disposed
      /\ ms1[new].name = id

\* C16 as stated (re-entrant per-id state machine): once the mesh X added
\* for an id has been removed (disposed), every later PlaneAdded for that id
\* leaves the registry holding for it a non-disposed mesh other than X.
C16_Original_ReAddTracksAgain ==
  [][ LET id == event'.id
          X  == ArrayGet(planes, id)
      IN  ( /\ event'.kind = "added"
            /\ X # Undefined
            /\ meshes[X].disposed )
          => TrackedAgain(planes', meshes', id, X) ]_vars

\* C16 amended: once the mesh X added for an id has been removed (disposed),
\* a later PlaneAdded for that id whose outline is non-empty and has no
\* missing point leaves the registry holding for it a non-disposed mesh
\* other than X.
C16_WellFormedReAddTracksAgain ==
  [][ \A o \in Outlines :
        LET id == event'.id
            X  == ArrayGet(planes, id)
        IN  ( /\ event'.kind = "added"
              /\ X # Undefined
              /\ meshes[X].disposed
              /\ WellFormed(o)
              /\ PlaneAdded(id, o) )
            => TrackedAgain(planes', meshes', id, X) ]_vars

\* a plane was added, removed and added again: the registry holds its
\* second mesh, the first is disposed
C16_Witness ==
  /\ event.kind = "added"
  /\ Len(meshes) = 2
  /\ Slot(event.id) = 2
  /\ meshes[1] = [ name |-> event.id, material |-> 1,
                   disposed |-> TRUE, by |-> "added" ]
  /\ meshes[2].by = "added"
  /\ ~meshes[2].disposed

\* C18 (the plane record is read-only): handling PlaneAdded or
\* PlaneUpdated leaves the outline of the delivered record as it was, the
\* same points in the same order and of the same length.
C18_OutlineUnchanged ==
  [][ \A o \in Outlines :
        ( \/ ( event'.kind = "added" /\ PlaneAdded(event'.id, o) )
          \/ ( event'.kind = "updated" /\ PlaneUpdated(event'.id, o) ) )
        => polygonDefinition' = o ]_vars

\* C19 (registry liveness): in every reachable state every mesh the
\* registry refers to is non-disposed.
C19_RegistryMeshesLive ==
  \A i \in 1..Len(planes) :
    planes[i] # Undefined => ~meshes[planes[i]].disposed

\* C17 (feature unavailable): when enabling plane detection has failed, no
\* plane handler is registered and the registry and the mesh table stay
\* empty; the detector handle stays null and no handler is registered
\* later.
C17_NoDetectorNoRegistry ==
  [][ ( stage' # "constructed" /\ ~xrPlanes' )
      => ( /\ "planes" \notin registered'
           /\ planes' = << >>
           /\ meshes' = << >>
           /\ ( stage # "constructed" => ~xrPlanes )
           /\ ( stage = "sceneCreated" => registered' = registered ) ) ]_vars

\* the scene was created although plane detection could not be enabled
C17_Witness ==
  /\ stage = "sceneCreated"
  /\ ~xrPlanes
  /\ planes = << >>

\* C20 (door placement requested at most once): addAnchorAtPosition is
\* called at most once in a run, however trigger presses on permitted
\* surfaces and the settling of anchor promises interleave.
C20_AtMostOneAnchorRequest == requests <= 1

\* C21 (placed is final): once _doorIsPlaced is true it stays true, and a
\* trigger press that comes then requests no anchor and does not move the
\* door container.
C21_PlacedIsFinal ==
  [][ doorIsPlaced
      => ( /\ doorIsPlaced'
           /\ doorEvent'.kind = "trigger"
              => ( /\ requests' = requests
                   /\ pending' = pending
                   /\ doorPos' = doorPos ) ) ]_vars

\* the trigger was pressed on a surface that allows placement after the
\* door had been placed, with requests still allowed by the bound
C21_Witness ==
  /\ doorIsPlaced
  /\ doorEvent.kind = "trigger"
  /\ doorEvent.pick \in { "horizontalLow", "other", "box" }
  /\ requests < MaxRequests

\* C22 (placed implies loaded and visible): whenever _doorIsPlaced is
\* true the door meshes are loaded and visible and the box is visible; an
\* anchor promise that resolves while the door model is not loaded leaves
\* _doorIsPlaced false.
C22_PlacedImpliesLoadedVisible ==
  [][ /\ doorIsPlaced' => ( doorLoaded' /\ doorVisible' /\ boxVisible' )
      /\ ( doorEvent'.kind = "resolved" /\ ~doorLoaded ) => ~doorIsPlaced'
    ]_vars

\* an anchor promise has just resolved with the door model loaded and has
\* placed the door, another request having been settled before
C22_Witness ==
  /\ doorIsPlaced
  /\ doorEvent.kind = "resolved"
  /\ requests > 1
  /\ Len(pending) = requests - 2

\* C23 (single anchor): after every anchor-added event remove() has been
\* called on every tracked anchor but the one just added, so at most one
\* anchor, the most recently added, is un-removed.
C23_SingleAnchor ==
  /\ \A k \in 1..Len(anchors) : k < Len(anchors) => anchors[k]
  /\ Cardinality({ k \in 1..Len(anchors) : ~anchors[k] }) <= 1

\* a second anchor was added: the first is removed, the second is not
C23_Witness ==
  /\ Len(anchors) >= 2
  /\ anchors[1]
  /\ ~anchors[Len(anchors)]

\* C24 (placement pick filter): a trigger press whose ray picks a vertical
\* plane, a horizontal plane above 0.5, the door, the handle, the door
\* frame or the marker requests no anchor and changes neither
\* _doorIsPlaced nor the box colour.
C24_PickFilter ==
  [][ ( /\ doorEvent'.kind = "trigger"
        /\ doorEvent'.pick \in { "vertical", "horizontalHigh", "door",
                                 "handle", "doorFrame", "marker" } )
      => ( /\ requests' = requests
           /\ pending' = pending
           /\ doorIsPlaced' = doorIsPlaced
           /\ boxColor' = boxColor ) ]_vars

\* the trigger was pressed on the marker while the door was not placed
C24_Witness ==
  /\ doorEvent = [ kind |-> "trigger", pick |-> "marker" ]
  /\ ~doorIsPlaced
  /\ requests < MaxRequests

\* C25 (hit-test marker consistency): before any hit-test notification the
\* marker is invisible and _hitTest is undefined; after every notification
\* the marker is visible iff the latest result list is non-empty iff
\* _hitTest is defined, and _hitTest is then the first result of that list.
C25_MarkerConsistency ==
  IF results.notified
  THEN /\ markerVisible <=> Len(results.list) > 0
       /\ markerVisible <=> hitTest # Undefined
       /\ Len(results.list) > 0 => hitTest = results.list[1]
  ELSE ~markerVisible /\ hitTest = Undefined

\* the latest notification carried two different results
C25_Witness ==
  /\ results.notified
  /\ Len(results.list) = 2
  /\ results.list[1] # results.list[2]
  /\ markerVisible

\* the rotation of a resting door by _doorIsOpen: 120 degrees from the
\* initial rotation when open, the initial rotation when closed
Resting(open) == IF open THEN 120 ELSE 0

\* C26 (open then close restores the door): while every door animation
\* has run to completion before the next press, openDoor turns the door by
\* 120 degrees and closeDoor by 120 degrees the opposite way, so a resting
\* door is at 120 degrees from its initial rotation exactly when
\* _doorIsOpen is true and back at its initial rotation when it is false.
C26_OpenCloseRestores ==
  ~interrupted
  => IF anim.on
     THEN /\ anim.from = Resting(~doorIsOpen)
          /\ anim.angle = IF doorIsOpen THEN 120 ELSE -120
          /\ EndRotation(anim) = Resting(doorIsOpen)
     ELSE doorRot = Resting(doorIsOpen)

\* the door was opened and closed, each animation running to its end,
\* and rests closed
C26_Witness ==
  /\ ~interrupted
  /\ doorEvent.kind = "frames"
  /\ ~anim.on
  /\ ~doorIsOpen
  /\ doorRot = 0

\* C27 (door angle stays bounded): whatever the timing of the door-button
\* presses, every door animation ends at the door's initial rotation or at
\* the initial rotation plus 120 degrees.
C27_EndRotationBounded ==
  anim.on => EndRotation(anim) \in { 0, 120 }

\* C28 (door toggle and frame condition): a pressed state-change of the
\* door button flips _doorIsOpen when the door model is loaded; when it is
\* not loaded, _doorIsOpen and the door state stay as they are, no
\* animation is started and nothing is raised.
C28_ToggleAndFrame ==
  [][ doorEvent'.kind = "button"
      => IF doorLoaded
         THEN doorIsOpen' = ~doorIsOpen
         ELSE /\ UNCHANGED << doorIsOpen, doorRot, anim >>
              /\ UNCHANGED << doorLoaded, doorVisible, doorIsPlaced, doorPos >>
              /\ doorErr' = "none" ]_vars

\* the door button was pressed while the door model was not loaded
C28_Witness ==
  /\ doorEvent.kind = "button"
  /\ ~doorLoaded
  /\ ~doorIsOpen

\* C29 (feature enablement is all-or-prefix): once addFeaturesToSession
\* has run, the enabled features are a prefix of plane detection, hit
\* test, anchors; an enableFeature that throws does not stop the start-up;
\* a feature left null stays null, and the hit-test handler, the anchor
\* observer and the controller handlers are not registered without their
\* feature.
C29_AllOrPrefix ==
  [][ stage' # "constructed"
      => ( /\ xrAnchors' => xrHitTest'
           /\ xrHitTest' => xrPlanes'
           /\ ~xrHitTest' => "hitTest" \notin registered'
           /\ ~xrAnchors' => ( /\ "anchors" \notin registered'
                               /\ "controller" \notin registered' )
           /\ ( stage = "constructed" /\ stage' = "failed" )
              => ( ~xrPlanes' /\ registered' = {} )
           /\ stage = "featuresAdded" => stage' # "failed"
           /\ stage # "constructed"
              => UNCHANGED << xrPlanes, xrHitTest, xrAnchors >> ) ]_vars

\* the scene was created with plane detection enabled after enabling the
\* hit test threw: only the plane handlers are registered
C29_Witness ==
  /\ stage = "sceneCreated"
  /\ xrPlanes
  /\ ~xrHitTest
  /\ ~xrAnchors
  /\ registered = { "planes" }

====
